---- MODULE Spec2Model ----
(***************************************************************************)
(* Model of autosip.py: the scheduler loop of main(), one measurement      *)
(* cycle of measure(), the readiness check, the response classifier and    *)
(* the time arithmetic of first_measure_time()/wait_until().               *)
(*                                                                         *)
(* Time is an integer number of clock ticks.  A tick is the resolution of  *)
(* the clock (arrow/datetime: one microsecond); a minute has Minute ticks. *)
(***************************************************************************)
EXTENDS Integers, Sequences, FiniteSets, TLC

\* ------------------------------------------------------------------ bounds
Minute == 2             \* ticks per minute (scale of the clock resolution)
MaxCycles == 3          \* measurement cycles followed per run
MaxReqTime == 1         \* longest time (ticks) one HTTP request may take

Hour == 60 * Minute
Cooldown == 15 * Minute \* time.sleep(60 * 15)

\* ------------------------------------------------------ program constants
\* PORTS: the channels that have an endpoint
PORTS == {"1", "2", "3", "4"}

\* ------------------------------------------------------------ input sets
\* args.channels: a JSON object (insertion-ordered dict) stimulus -> responses
ChannelMaps ==
    { << [stim |-> "1", resp |-> <<"2">>], [stim |-> "3", resp |-> <<"4">>] >>,
      << [stim |-> "2", resp |-> <<"1", "3">>] >> }

OneChannel == << [stim |-> "2", resp |-> <<"1", "3">>] >>

\* --interval strings (a string is the sequence of its characters): HH:MM
IntervalArgs == { <<"0", "0", ":", "0", "0">>, <<"0", "0", ":", "1", "0">>,
                  <<"0", "0", ":", "1", "5">>, <<"0", "1", ":", "0", "0">>,
                  <<"2", ":", "0", "0">> }
\* --interval strings that are not HH:MM
BadIntervals == { <<"1", ":", "5">>, <<"9", "9", ":", "0", "0">>,
                  <<"0", ":", "7", "0">>, <<"x", "1", ":", "0", "0">>,
                  <<"0", ":", "1", "0", "x">>, <<"0", "1", ":", "0", "0", ":", "3", "0">> }
OneHour == <<"0", "1", ":", "0", "0">>

\* one entry of a channel map, for prepare_data
PrepareMaps == { << [stim |-> "1", resp |-> <<"2", "3">>] >>,
                 << [stim |-> "3", resp |-> <<"4">>] >>,
                 << [stim |-> "2", resp |-> <<"4", "1", "3">>] >>,
                 << [stim |-> "4", resp |-> << >>] >> }

\* --sip-version
SupportedVersions == {"1.0.1", "1.3.1h-1"}
Versions == SupportedVersions \cup {"2.0"}

\* --paramfile: the JSON object of overrides (none when the option is absent)
NoOverrides == [n \in {} |-> ""]
ParamFiles == { NoOverrides,
                [amplitude |-> "2.5"],
                [unknown_key |-> "x", stimulus_channel |-> "9",
                 filename |-> "mine"] }

\* wall-clock times at which the program may be started
StartTimes == { 0, 7 * Minute + 1, 45 * Minute, Hour - 1 }
NowRange == 0 .. (2 * Hour)

\* what one GET may come back with: no connection, or a status and a body
GetStatuses == {200, 304, 404}
GetAnswers == { [up |-> FALSE, status |-> 0, submit |-> FALSE] } \cup
              [up : {TRUE}, status : GetStatuses, submit : BOOLEAN]
\* the answers followed through a whole cycle: ready, and one per failure
CycleAnswers == { [up |-> FALSE, status |-> 0, submit |-> FALSE],
                  [up |-> TRUE, status |-> 200, submit |-> TRUE],
                  [up |-> TRUE, status |-> 200, submit |-> FALSE],
                  [up |-> TRUE, status |-> 404, submit |-> TRUE] }

\* what one POST may come back with
PostStatuses == {100, 200, 201, 204, 301, 304, 400, 404, 500, 503, 599}
Responses == [up : {TRUE}, status : PostStatuses,
              cancel : BOOLEAN, error : BOOLEAN, submit : BOOLEAN]
NoConnection == [up |-> FALSE, status |-> 0,
                 cancel |-> FALSE, error |-> FALSE, submit |-> FALSE]
PostResults == Responses \cup {NoConnection}

VARIABLES
    args,       \* settled configuration: channels, interval string, flag
    interval,   \* timedelta of get_interval (ticks)
    now,        \* wall clock
    next_time,  \* main(): target time of the next cycle
    start,      \* main(): the first value of next_time
    k,          \* number of times the loop advanced next_time
    pc,         \* position of the single thread of control
    exc,        \* the exception that ended the process, "none" otherwise
    cycle,      \* number of calls of measure() so far
    began,      \* time at which the current call of measure() began
    idx,        \* measure(): position in args.channels.items()
    checks,     \* results of check_device_ready in this cycle
    polled,     \* channels that got a GET in the latest readiness check
    ready_at,   \* channels that were ready at the latest readiness check
    dev,        \* check_device_ready: what each channel answers
    posts,      \* stimulus channels that got a POST in this cycle
    log,        \* log events of this cycle
    resp,       \* check_response: the response under classification
    outcome,    \* check_response: its result
    data,       \* main(): the parameters, defaults merged with the overrides
    param_names,    \* main(): the field mapping of the version
    request_kwargs, \* main(): the credentials passed to every request
    payload     \* run_data of the latest prepare_data

vars == << args, interval, now, next_time, start, k, pc, exc, cycle, began,
           idx, checks, polled, ready_at, dev, posts, log, resp,
           outcome, data, param_names, request_kwargs, payload >>

\* ---------------------------------------------------------------- helpers
DictKeys(channels) == [i \in 1 .. Len(channels) |-> channels[i].stim]
SeqSet(s) == { s[i] : i \in 1 .. Len(s) }
StimulusSet(channels) == { channels[i].stim : i \in 1 .. Len(channels) }
ResponseSet(channels) ==
    UNION { SeqSet(channels[i].resp) : i \in 1 .. Len(channels) }
Flattened(channels) == StimulusSet(channels) \cup ResponseSet(channels)

\* requests: Response.ok / raise_for_status() fail for 4xx and 5xx only
status_ok(status) == ~(400 <= status /\ status < 600)

\* int() of one decimal digit
Digits == {"0", "1", "2", "3", "4", "5", "6", "7", "8", "9"}
DigitValue(c) ==
    CASE c = "0" -> 0 [] c = "1" -> 1 [] c = "2" -> 2 [] c = "3" -> 3
      [] c = "4" -> 4 [] c = "5" -> 5 [] c = "6" -> 6 [] c = "7" -> 7
      [] c = "8" -> 8 [] c = "9" -> 9

\* re.match("([0-2]?[0-9]):([0-5][0-9])", interval_str): the groups as
\* integers, << >> when there is no match.  re.match anchors the pattern at
\* the start of the string only.
interval_groups(str) ==
    IF /\ Len(str) >= 5
       /\ str[1] \in {"0", "1", "2"} /\ str[2] \in Digits /\ str[3] = ":"
       /\ str[4] \in {"0", "1", "2", "3", "4", "5"} /\ str[5] \in Digits
    THEN << 10 * DigitValue(str[1]) + DigitValue(str[2]),
            10 * DigitValue(str[4]) + DigitValue(str[5]) >>
    ELSE IF /\ Len(str) >= 4
            /\ str[1] \in Digits /\ str[2] = ":"
            /\ str[3] \in {"0", "1", "2", "3", "4", "5"} /\ str[4] \in Digits
    THEN << DigitValue(str[1]),
            10 * DigitValue(str[3]) + DigitValue(str[4]) >>
    ELSE << >>
\* get_interval raises ValueError when match is None
interval_matches(str) == interval_groups(str) # << >>
\* get_interval: timedelta(hours=hour, minutes=minutes)
get_interval(str) ==
    LET hm == interval_groups(str) IN hm[1] * Hour + hm[2] * Minute

\* arrow: now.floor('hour')
floor_hour(t) == t - (t % Hour)
\* arrow: now.ceil('hour') is the last tick of the hour that contains now
ceil_hour(t) == floor_hour(t) + Hour - 1

\* first_measure_time: (num_intervals - floor(num_intervals)) * interval is
\* the remainder of diff_to_full_hour by interval
first_measure_time(t, iv) ==
    LET next_full_hour == ceil_hour(t)
        diff_to_full_hour == next_full_hour - t
        time_to_next_measurement == diff_to_full_hour % iv
    IN  t + time_to_next_measurement

\* ------------------------------------------------- check_device_ready
\* one pass of the loop body: the three tests that return False
channel_unready_nomarker(r) ==
    \/ ~r.up
    \/ ~status_ok(r.status)
channel_unready(r) ==
    \/ ~r.up                    \* requests.get raised
    \/ ~status_ok(r.status)     \* not r.ok
    \/ ~r.submit                \* not SUBMIT_BUTTON in r.text

RECURSIVE ready_from(_, _, _)
ready_from(keys, answers, i) ==
    IF i > Len(keys) THEN [ok |-> TRUE, polled |-> << >>]
    ELSE IF channel_unready(answers[keys[i]])
         THEN [ok |-> FALSE, polled |-> << keys[i] >>]
         ELSE LET rest == ready_from(keys, answers, i + 1)
              IN  [ok |-> rest.ok, polled |-> << keys[i] >> \o rest.polled]

\* the loop returns True as soon as one channel is ready
check_device_ready_first(channels, answers) ==
    LET keys == DictKeys(channels)
    IN  IF Len(keys) = 0 THEN [ok |-> TRUE, polled |-> << >>]
        ELSE [ok |-> ~channel_unready(answers[keys[1]]),
              polled |-> << keys[1] >>]
\* every channel is polled before the answers are combined
check_device_ready_all(channels, answers) ==
    LET keys == DictKeys(channels)
    IN  [ok |-> \A i \in 1 .. Len(keys) : ~channel_unready(answers[keys[i]]),
         polled |-> keys]
\* iterating the dict args.channels yields its keys, in insertion order
check_device_ready(channels, answers) ==
    ready_from(DictKeys(channels), answers, 1)

\* ----------------------------------------------------- check_response
\* the error marker is tested before the cancel marker
check_response_swapped(r) ==
    IF ~status_ok(r.status) THEN "HTTPError"
    ELSE IF r.error THEN "RuntimeError: parameters"
    ELSE IF r.cancel THEN "success"
    ELSE IF r.submit THEN "RuntimeError: Submitting failed"
    ELSE "RuntimeError: Bad response"
check_response(r) ==
    IF ~status_ok(r.status) THEN "HTTPError"            \* r.raise_for_status()
    ELSE IF r.cancel THEN "success"                     \* CANCEL_BUTTON in text
    ELSE IF r.error THEN "RuntimeError: parameters"     \* 'ERROR : Web UI Error'
    ELSE IF r.submit THEN "RuntimeError: Submitting failed"
    ELSE "RuntimeError: Bad response"

\* the try block of measure(): requests.post, then check_response
submit(r) == IF ~r.up THEN "ConnectionError" ELSE check_response(r)

\* ------------------------------------------------------------ parameters
DEFAULTS ==
    [psip_mode |-> "1", sequence_script |-> "", seq_loop_count |-> "1",
     stimulus_plus_p1 |-> "0", stimulus_minus_p2 |-> "0",
     sense_plus_p3 |-> "0", sense_minus_p4 |-> "0",
     start_freq |-> "1000.0", stop_freq |-> "0.01", n_steps |-> "51",
     amplitude |-> "5.0", settle_time |-> "1", settle_cycles |-> "1",
     integration_time |-> "5", integration_cycles |-> "5",
     resistor_ohm |-> "1000", loop_count |-> "1", master_slave_sel |-> "0",
     ext_trigger_sel |-> "0", filename |-> "sip_results",
     comment |-> "comment", submit |-> "1"]

\* a dict keeps its insertion order: << logical name, wire name >>
PARAM_NAMES_v1_0_1 ==
    << <<"stimulus_channel", "n1">>, <<"response_channel", "n2">>,
       <<"start_freq", "v11">>, <<"stop_freq", "v12">>, <<"n_steps", "v13">>,
       <<"amplitude", "v14">>, <<"settle_time", "v21">>,
       <<"settle_cycles", "v22">>, <<"integration_time", "v23">>,
       <<"integration_cycles", "v24">>, <<"resistor_ohm", "n3">>,
       <<"loop_count", "loop">>, <<"master_slave_sel", "msSel">>,
       <<"ext_trigger_sel", "trigSel">>, <<"filename", "n4">>,
       <<"comment", "n5">>, <<"submit", "submit">> >>
PARAM_NAMES_v1_3_1h1 ==
    << <<"psip_mode", "funcSelectBox">>,
       <<"sequence_script", "sequence_script">>,
       <<"seq_loop_count", "seq_loop_count">>,
       <<"stimulus_plus_p1", "fx_sel1">>, <<"stimulus_minus_p2", "fx_sel2">>,
       <<"sense_plus_p3", "fx_sel3">>, <<"sense_minus_p4", "fx_sel4">>,
       <<"response_channel", "resp_chan_list">>,
       <<"start_freq", "start_freq">>, <<"stop_freq", "stop_freq">>,
       <<"n_steps", "num_steps">>, <<"amplitude", "amplitude">>,
       <<"settle_time", "settle_time">>, <<"settle_cycles", "settle_cycles">>,
       <<"integration_time", "int_time">>,
       <<"integration_cycles", "int_cycles">>,
       <<"resistor_ohm", "current_resistor">>, <<"loop_count", "loop_count">>,
       <<"master_slave_sel", "ms_sel">>, <<"ext_trigger_sel", "trig_sel">>,
       <<"filename", "log_prefix">>, <<"comment", "user_comment">>,
       <<"submit", "submit">> >>

\* get_param_names: the table, or ValueError for any other version
get_param_names(version) ==
    IF version = "1.0.1" THEN [raised |-> FALSE, names |-> PARAM_NAMES_v1_0_1]
    ELSE IF version = "1.3.1h-1"
         THEN [raised |-> FALSE, names |-> PARAM_NAMES_v1_3_1h1]
         ELSE [raised |-> TRUE, names |-> << >>]

LogicalNames(names) ==
    { names[i][1] : i \in 1 .. Len(names) }
WireNames(names) ==
    { names[i][2] : i \in 1 .. Len(names) }

\* dict.update: the keys of `other` replace or extend those of `d`
update(d, other) ==
    [n \in DOMAIN d \cup DOMAIN other |->
        IF n \in DOMAIN other THEN other[n] ELSE d[n]]

\* a dict without one of its keys
Without(d, name) == [n \in DOMAIN d \ {name} |-> d[n]]

\* main(), lines 279-282: the defaults, the overrides, then the basename
main_data(overrides, basename) ==
    update(update(DEFAULTS, overrides), [filename |-> basename])

\* ' '.join
RECURSIVE join_space(_)
join_space(strs) ==
    IF Len(strs) = 0 THEN ""
    ELSE IF Len(strs) = 1 THEN strs[1]
    ELSE strs[1] \o " " \o join_space(Tail(strs))
\* ','.join(str(i) for i in response_channels)
RECURSIVE join_comma(_)
join_comma(strs) ==
    IF Len(strs) = 0 THEN ""
    ELSE IF Len(strs) = 1 THEN strs[1]
    ELSE strs[1] \o "," \o join_comma(Tail(strs))

\* arrow.utcnow().strftime("%Y%m%dT%H%MZ"): the time to the minute
timestamp(t) == ToString(t \div Minute) \o "Z"
\* '%s-ch%s-%s' % (timestamp, stimulus_channel, basename)
file_name(t, stimulus_channel, basename) ==
    timestamp(t) \o "-ch" \o stimulus_channel \o "-" \o basename

\* prepare_data, lines 140-146: the copy of params with the three fields set
prepare_vals(basename, stimulus_channel, response_channels, params, t) ==
    update(params,
           [filename |-> file_name(t, stimulus_channel, basename),
            stimulus_channel |-> stimulus_channel,
            response_channel |-> join_comma(response_channels)])

\* the comprehension leaves out the names that vals does not have
prepare_data_skip_missing(basename, stimulus_channel, response_channels, names, params, t) ==
    LET vals == prepare_vals(basename, stimulus_channel, response_channels,
                             params, t)
        kept == SelectSeq(names, LAMBDA e : e[1] \in DOMAIN vals)
    IN  [raised |-> FALSE,
         run_data |-> [i \in 1 .. Len(kept) |->
                          << kept[i][2], vals[kept[i][1]] >>]]
\* the comprehension runs over vals and keeps the unmapped names as they are
prepare_data_passthrough(basename, stimulus_channel, response_channels, names, params, t) ==
    LET vals == prepare_vals(basename, stimulus_channel, response_channels,
                             params, t)
        extra == { n \in DOMAIN vals : n \notin LogicalNames(names) }
        RECURSIVE AsSeq(_)
        AsSeq(S) == IF S = {} THEN << >>
                    ELSE LET n == CHOOSE x \in S : TRUE
                         IN  << <<n, vals[n]>> >> \o AsSeq(S \ {n})
    IN  [raised |-> \E i \in 1 .. Len(names) :
                        names[i][1] \notin DOMAIN vals,
         run_data |-> [i \in 1 .. Len(names) |->
                          << names[i][2],
                             IF names[i][1] \in DOMAIN vals
                             THEN vals[names[i][1]] ELSE "" >>]
                      \o AsSeq(extra)]
\* prepare_data: {instrument_name: vals[name] for name, instrument_name in
\* param_names.items()}; vals[name] raises KeyError for a missing name
prepare_data(basename, stimulus_channel, response_channels, names, params, t) ==
    LET vals == prepare_vals(basename, stimulus_channel, response_channels,
                             params, t)
        missing == \E i \in 1 .. Len(names) :
                        names[i][1] \notin DOMAIN vals
    IN  [raised |-> missing,
         run_data |-> IF missing THEN << >>
                      ELSE [i \in 1 .. Len(names) |->
                               << names[i][2], vals[names[i][1]] >>]]

\* the value a payload carries under a wire name
Field(run_data, wire) ==
    LET i == CHOOSE j \in 1 .. Len(run_data) : run_data[j][1] = wire
    IN  run_data[i][2]
HasField(run_data, wire) ==
    \E j \in 1 .. Len(run_data) : run_data[j][1] = wire

\* measure(): data after prepare_data(..., **data) wrote into vals
\* (the writes land in the caller's dict)
data_written_in_place(params, vals) == vals
\* (**data and params.copy() make vals a dict of its own)
data_after_prepare(params, vals) == params

\* main(), lines 288-294: the credentials asked for once
credentials(version) ==
    IF version = "1.3.1h-1" THEN [auth |-> << "login", "password" >>]
    ELSE [n \in {} |-> << >>]

\* ------------------------------------------------------------ scheduling
\* main(): next_time = next_time + interval
next_target_from_now(last, t, iv) == t + iv
next_target(last, t, iv) == last + iv

\* measure(): the step after the re-check
after_recheck_fallthrough(ok) == "post"
after_recheck_retry(ok) == IF ok THEN "post" ELSE "cooldown"
after_recheck(ok) == IF ok THEN "post" ELSE "done"

\* measure(): the channel handled after one whose submission ended `kind`
next_channel_abort(i, n, kind) == IF kind = "success" THEN i + 1 ELSE n + 1
next_channel_skip(i, n, kind) == i + 2
next_channel(i, n, kind) == i + 1

Event(ev, ch, kind) == [ev |-> ev, ch |-> ch, kind |-> kind, file |-> "-"]

\* measure(), lines 209-213: the success is logged on every outcome
outcome_event_always_success(ch, kind, file) ==
    [Event("submitted", ch, kind) EXCEPT !.file = file]
\* measure(), lines 209-213: success with the file name, or the failure
outcome_event(ch, kind, file) ==
    IF kind = "success"
    THEN [Event("submitted", ch, kind) EXCEPT !.file = file]
    ELSE Event("failed", ch, kind)

\* param_names[name]
wire_name(names, name) ==
    LET i == CHOOSE j \in 1 .. Len(names) : names[j][1] = name
    IN  names[i][2]

NoAnswers == [c \in PORTS |-> [up |-> FALSE, status |-> 0, submit |-> FALSE]]

\* ------------------------------------------------------------------ Init
\* the command lines followed: every schedule with the default parameters;
\* every version and parameter file on one schedule; every malformed interval
Init ==
    /\ \/ /\ args \in [channels : ChannelMaps, interval : IntervalArgs,
                       measure_full_hours : BOOLEAN,
                       sip_version : {"1.3.1h-1"}, paramfile : {NoOverrides},
                       basename : {"sip"}]
          /\ now \in StartTimes
       \/ /\ args \in [channels : ChannelMaps, interval : {OneHour},
                       measure_full_hours : {FALSE},
                       sip_version : Versions, paramfile : ParamFiles,
                       basename : {"sip"}]
          /\ now = 0
       \/ /\ args \in [channels : {OneChannel}, interval : BadIntervals,
                       measure_full_hours : BOOLEAN,
                       sip_version : {"1.3.1h-1"}, paramfile : {NoOverrides},
                       basename : {"sip"}]
          /\ now = 0
    /\ data = NoOverrides
    /\ param_names = << >>
    /\ request_kwargs = credentials("")
    /\ payload = << >>
    /\ interval = 0
    /\ next_time = 0
    /\ start = 0
    /\ k = 0
    /\ pc = "main"
    /\ exc = "none"
    /\ cycle = 0
    /\ began = 0
    /\ idx = 0
    /\ checks = << >>
    /\ polled = << >>
    /\ ready_at = {}
    /\ dev = NoAnswers
    /\ posts = << >>
    /\ log = << >>
    /\ resp = NoConnection
    /\ outcome = "none"

cycle_vars == << cycle, began, idx, checks, polled, ready_at, posts, log >>
pure_vars == << dev, resp, outcome >>
param_vars == << data, param_names, request_kwargs, payload >>

\* main(), lines 297-303: the first target time, for a parsed interval
Schedule(iv) ==
    /\ interval' = iv
    /\ IF args.measure_full_hours
       THEN IF iv = 0
            THEN \* diff_to_full_hour / interval divides by timedelta(0)
                 /\ pc' = "crashed"
                 /\ exc' = "ZeroDivisionError"
                 /\ UNCHANGED << now, next_time, start >>
            ELSE /\ next_time' = first_measure_time(now, iv)
                 /\ start' = next_time'
                 /\ pc' = "first_wait"
                 /\ UNCHANGED << now, exc >>
       ELSE /\ next_time' = now
            /\ start' = now
            /\ pc' = "measure"
            /\ UNCHANGED << now, exc >>

\* main() up to the first cycle: parse_args (the choices of --sip-version),
\* lines 279-294 (parameters, field mapping, credentials), lines 297-303
Startup ==
    /\ pc = "main"
    /\ IF args.sip_version \notin SupportedVersions
       THEN \* argparse: invalid choice
            /\ pc' = "crashed"
            /\ exc' = "SystemExit"
            /\ UNCHANGED << interval, now, next_time, start, data, param_names,
                            request_kwargs >>
       ELSE /\ data' = main_data(args.paramfile, args.basename)
            /\ IF get_param_names(args.sip_version).raised
               THEN /\ pc' = "crashed"
                    /\ exc' = "ValueError: version"
                    /\ UNCHANGED << interval, now, next_time, start,
                                    param_names, request_kwargs >>
               ELSE /\ param_names' = get_param_names(args.sip_version).names
                    /\ request_kwargs' = credentials(args.sip_version)
                    /\ IF ~interval_matches(args.interval)
                       THEN /\ pc' = "crashed"
                            /\ exc' = "ValueError: interval"
                            /\ UNCHANGED << interval, now, next_time, start >>
                       ELSE Schedule(get_interval(args.interval))
    /\ UNCHANGED << args, k, cycle_vars, pure_vars, payload >>

\* wait_until(target_time): time.sleep(diff) raises ValueError for diff < 0
WaitUntil ==
    /\ pc \in {"first_wait", "wait"}
    /\ LET diff == next_time - now IN
       IF diff < 0
       THEN /\ pc' = "crashed"
            /\ exc' = "ValueError"
            /\ now' = now
       ELSE /\ now' = now + diff
            /\ pc' = "measure"
            /\ exc' = exc
    /\ UNCHANGED << args, interval, next_time, start, k, cycle_vars, pure_vars, param_vars >>

\* measure(), lines 191-193: the first readiness check
MeasureStart ==
    /\ pc = "measure"
    /\ \E answers \in [PORTS -> CycleAnswers] :
          LET res == check_device_ready(args.channels, answers) IN
          /\ ready_at' = { c \in PORTS : ~channel_unready(answers[c]) }
          /\ checks' = << res.ok >>
          /\ polled' = res.polled
          /\ pc' = IF res.ok THEN "post" ELSE "cooldown"
    /\ cycle' = cycle + 1
    /\ began' = now
    /\ idx' = 1
    /\ UNCHANGED << posts, log >>
    /\ UNCHANGED << args, interval, now, next_time, start, k, exc, pure_vars, param_vars >>

\* measure(), lines 194-195: 'Waiting 15 minutes...', time.sleep(60 * 15)
CooldownSleep ==
    /\ pc = "cooldown"
    /\ now' = now + Cooldown
    /\ log' = Append(log, Event("waiting", "-", "-"))
    /\ pc' = "recheck"
    /\ UNCHANGED << args, interval, next_time, start, k, exc, cycle, began,
                    idx, checks, polled, ready_at, posts, pure_vars, param_vars >>

\* measure(), lines 196-198: the re-check; 'Skipping this measurement.'
Recheck ==
    /\ pc = "recheck"
    /\ \E answers \in [PORTS -> CycleAnswers] :
          LET res == check_device_ready(args.channels, answers) IN
          /\ ready_at' = { c \in PORTS : ~channel_unready(answers[c]) }
          /\ checks' = Append(checks, res.ok)
          /\ polled' = res.polled
          /\ pc' = after_recheck(res.ok)
          /\ log' = IF res.ok THEN log
                    ELSE Append(log, Event("skipping", "-", "-"))
    /\ UNCHANGED << args, interval, now, next_time, start, k, exc, cycle,
                    began, idx, posts, pure_vars, param_vars >>

\* measure(), lines 200-213: one pass of the loop over args.channels.items()
Post ==
    /\ pc = "post"
    /\ idx <= Len(args.channels)
    /\ LET ch == args.channels[idx].stim
           response_channels == args.channels[idx].resp
           run == prepare_data(args.basename, ch, response_channels,
                               param_names, data, now)
       IN  /\ data' = data_after_prepare(data,
                          prepare_vals(args.basename, ch, response_channels,
                                       data, now))
           /\ IF run.raised
              THEN \* KeyError in prepare_data: caught, nothing is sent
                   /\ log' = Append(log, Event("failed", ch, "KeyError"))
                   /\ idx' = next_channel(idx, Len(args.channels), "KeyError")
                   /\ UNCHANGED << posts, now, payload >>
              ELSE /\ payload' = run.run_data
                   /\ posts' = Append(posts, ch)
                   /\ \E kind \in { submit(r) : r \in PostResults },
                         d \in 0 .. MaxReqTime :
                         /\ log' = Append(log, outcome_event(ch, kind,
                                      Field(payload',
                                            wire_name(param_names, "filename"))))
                         /\ idx' = next_channel(idx, Len(args.channels), kind)
                         /\ now' = now + d
    /\ pc' = "post"
    /\ UNCHANGED << args, interval, next_time, start, k, exc, cycle, began,
                    checks, polled, ready_at, pure_vars, param_names,
                    request_kwargs >>

\* measure() returns when the loop is exhausted
MeasureReturn ==
    /\ pc = "post"
    /\ idx > Len(args.channels)
    /\ pc' = "done"
    /\ UNCHANGED << args, interval, now, next_time, start, k, exc, cycle_vars,
                    pure_vars, param_vars >>

\* main(), line 306: next_time = next_time + interval
LoopNext ==
    /\ pc = "done"
    /\ cycle < MaxCycles
    /\ next_time' = next_target(next_time, now, interval)
    /\ k' = k + 1
    /\ pc' = "wait"
    \* the cycle's record is complete: the next one starts afresh
    /\ idx' = 0
    /\ checks' = << >>
    /\ polled' = << >>
    /\ ready_at' = {}
    /\ posts' = << >>
    /\ log' = << >>
    /\ UNCHANGED << args, interval, now, start, exc, cycle, began, pure_vars, param_vars >>

Next ==
    \/ Startup
    \/ WaitUntil
    \/ MeasureStart
    \/ CooldownSleep
    \/ Recheck
    \/ Post
    \/ MeasureReturn
    \/ LoopNext

Spec == Init /\ [][Next]_vars

\* ------------------------------------------------------------------------
\* The functions on their own: each is called once on an input of its domain.
InitCalls ==
    /\ interval = 0 /\ next_time = 0 /\ start = 0 /\ k = 0 /\ exc = "none"
    /\ cycle = 0 /\ began = 0 /\ idx = 0 /\ checks = << >> /\ polled = << >>
    /\ ready_at = {} /\ posts = << >> /\ log = << >> /\ outcome = "none"
    /\ request_kwargs = credentials("")
    /\ payload = << >>
    /\ \/ /\ pc = "call check_device_ready"
          /\ args \in [channels : ChannelMaps, interval : {OneHour},
                       measure_full_hours : {FALSE},
                       sip_version : {"1.3.1h-1"}, paramfile : {NoOverrides},
                       basename : {"sip"}]
          /\ dev \in [PORTS -> GetAnswers]
          /\ resp = NoConnection
          /\ now = 0
          /\ data = NoOverrides
          /\ param_names = << >>
       \/ /\ pc = "call check_response"
          /\ args \in [channels : {<< >>}, interval : {OneHour},
                       measure_full_hours : {FALSE},
                       sip_version : {"1.3.1h-1"}, paramfile : {NoOverrides},
                       basename : {"sip"}]
          /\ dev = NoAnswers
          /\ resp \in Responses
          /\ now = 0
          /\ data = NoOverrides
          /\ param_names = << >>
       \/ /\ pc = "call first_measure_time"
          /\ args \in [channels : {<< >>}, interval : IntervalArgs,
                       measure_full_hours : {TRUE},
                       sip_version : {"1.3.1h-1"}, paramfile : {NoOverrides},
                       basename : {"sip"}]
          /\ dev = NoAnswers
          /\ resp = NoConnection
          /\ now \in NowRange
          /\ data = NoOverrides
          /\ param_names = << >>
       \/ /\ pc = "call prepare_data"
          \* one stimulus channel with its response channels, a version's
          \* field mapping, and a parameter set: main()'s, or one lacking a key
          /\ args \in [channels : PrepareMaps, interval : {OneHour},
                       measure_full_hours : {FALSE},
                       sip_version : SupportedVersions, paramfile : ParamFiles,
                       basename : {"sip"}]
          /\ dev = NoAnswers
          /\ resp = NoConnection
          /\ now \in 0 .. (2 * Minute)
          /\ \/ data = main_data(args.paramfile, args.basename)
             \/ data = Without(main_data(args.paramfile, args.basename),
                               "comment")
          /\ param_names = get_param_names(args.sip_version).names

\* check_device_ready(ip, channels, request_kwargs)
CallCheckDeviceReady ==
    /\ pc = "call check_device_ready"
    /\ LET res == check_device_ready(args.channels, dev) IN
       /\ checks' = << res.ok >>
       /\ polled' = res.polled
    /\ pc' = "check_device_ready returned"
    /\ UNCHANGED << args, interval, now, next_time, start, k, exc, cycle, began,
                    idx, ready_at, posts, log, pure_vars, param_vars >>

\* check_response(r)
CallCheckResponse ==
    /\ pc = "call check_response"
    /\ outcome' = check_response(resp)
    /\ pc' = "check_response returned"
    /\ UNCHANGED << args, interval, now, next_time, start, k, exc, cycle_vars,
                    dev, resp, param_vars >>

\* first_measure_time(get_interval(args.interval))
CallFirstMeasureTime ==
    /\ pc = "call first_measure_time"
    /\ LET iv == get_interval(args.interval) IN
       /\ interval' = iv
       /\ IF iv = 0
          THEN /\ pc' = "crashed"
               /\ exc' = "ZeroDivisionError"
               /\ next_time' = next_time
          ELSE /\ next_time' = first_measure_time(now, iv)
               /\ pc' = "first_measure_time returned"
               /\ exc' = exc
    /\ UNCHANGED << args, now, start, k, cycle_vars, pure_vars, param_vars >>

\* prepare_data(basename, stimulus_channel, response_channels, param_names,
\* **params) for the one entry of args.channels
CallPrepareData ==
    /\ pc = "call prepare_data"
    /\ LET run == prepare_data(args.basename, args.channels[1].stim,
                               args.channels[1].resp, param_names, data, now)
       IN  /\ payload' = run.run_data
           /\ exc' = IF run.raised THEN "KeyError" ELSE exc
           /\ data' = data_after_prepare(data,
                          prepare_vals(args.basename, args.channels[1].stim,
                                       args.channels[1].resp, data, now))
    /\ pc' = "prepare_data returned"
    /\ UNCHANGED << args, interval, now, next_time, start, k, cycle_vars,
                    pure_vars, param_names, request_kwargs >>

NextCalls ==
    \/ CallCheckDeviceReady
    \/ CallCheckResponse
    \/ CallFirstMeasureTime
    \/ CallPrepareData

SpecCalls == InitCalls /\ [][NextCalls]_vars

\* ======================================================================
\* Claims
\* ======================================================================
InCycle == pc \in {"cooldown", "recheck", "post", "done"}
ReadinessPassed == \E i \in 1 .. Len(checks) : checks[i]
Count(ev) == Cardinality({ i \in 1 .. Len(log) : log[i].ev = ev })

C2_NoPostWhenNotReady ==
    (InCycle /\ ~ReadinessPassed) =>
        /\ posts = << >>
        /\ pc = "done" =>
              /\ checks = << FALSE, FALSE >>
              /\ Count("skipping") = 1
              /\ exc = "none"

C2_Witness ==
    /\ pc = "done"
    /\ checks = << FALSE, FALSE >>
    /\ Count("skipping") = 1
    /\ posts = << >>

\* C3: once the first cycle has started, the process is never ended by the
\* measurement path (every cycle is followed by a wait and another cycle).
C3_NeverTerminates == cycle >= 1 => pc # "crashed"

\* C4: wait_until called with a target at or before the current time returns
\* normally without sleeping: the next cycle starts at once.
C4_WaitToleratesPast ==
    [][(pc \in {"first_wait", "wait"} /\ next_time <= now)
         => (pc' = "measure" /\ now' = now /\ exc' = "none")]_vars

\* C5 (as stated): before any POST of a cycle, every stimulus channel and
\* every response channel of the map was polled and ready in the readiness
\* check that let the cycle pass.
C5_FlattenedChecked ==
    (pc = "post" \/ posts # << >>) =>
        /\ Flattened(args.channels) \subseteq SeqSet(polled)
        /\ Flattened(args.channels) \subseteq ready_at

\* C5 (amended): before any POST of a cycle, every stimulus channel of the
\* map was polled and ready in the readiness check that let the cycle pass;
\* the check polls the stimulus channels only.
C5_StimulusChecked ==
    (pc = "post" \/ posts # << >>) =>
        /\ polled = DictKeys(args.channels)
        /\ StimulusSet(args.channels) \subseteq ready_at

C5_Witness ==
    /\ posts # << >>
    /\ \E c \in ResponseSet(args.channels) : c \notin ready_at
    /\ StimulusSet(args.channels) \subseteq ready_at

\* C6: check_device_ready returns the conjunction, over the channels it is
\* given, of: the GET succeeded, its status is OK, its body has the submit
\* marker; it returns that boolean without raising.
C6_ReadyIsConjunction ==
    pc = "check_device_ready returned" =>
        /\ checks[1] = (\A c \in StimulusSet(args.channels) :
                            /\ dev[c].up
                            /\ dev[c].status < 400
                            /\ dev[c].submit)
        /\ exc = "none"

C6_Witness ==
    /\ pc = "check_device_ready returned"
    /\ Len(args.channels) = 2
    /\ dev[args.channels[1].stim] = [up |-> TRUE, status |-> 200, submit |-> TRUE]
    /\ dev[args.channels[2].stim] = [up |-> TRUE, status |-> 200, submit |-> FALSE]
    /\ checks = << FALSE >>

\* C7 (as stated): any status outside 2xx raises whatever the body is; a 2xx
\* response is classified by the first marker present, in the order cancel,
\* error, submit, and by 'bad response' when none is.
Classified(r, o) ==
    /\ r.cancel => o = "success"
    /\ (~r.cancel /\ r.error) => o = "RuntimeError: parameters"
    /\ (~r.cancel /\ ~r.error /\ r.submit) => o = "RuntimeError: Submitting failed"
    /\ (~r.cancel /\ ~r.error /\ ~r.submit) => o = "RuntimeError: Bad response"
    /\ o = "success" => r.cancel

C7_Non2xxRaises ==
    pc = "check_response returned" =>
        /\ resp.status \notin 200 .. 299 => outcome = "HTTPError"
        /\ resp.status \in 200 .. 299 => Classified(resp, outcome)

\* C7 (amended): a 4xx or 5xx status raises whatever the body is; every other
\* status (1xx and 3xx as well as 2xx) is classified by the first marker
\* present, in the order cancel, error, submit, and by 'bad response' when
\* none is.
C7_ErrorStatusRaises ==
    pc = "check_response returned" =>
        /\ resp.status \in 400 .. 599 => outcome = "HTTPError"
        /\ resp.status \notin 400 .. 599 => Classified(resp, outcome)

C7_Witness ==
    /\ pc = "check_response returned"
    /\ resp.status = 200
    /\ resp.cancel /\ resp.error /\ resp.submit
    /\ outcome = "success"

\* the hour boundaries a time of the model can be measured from
HourGrid == { h * Hour : h \in 0 .. 4 }
\* the next full hour: the first hour boundary at or after t, or after t
NextFullHours(t) == { floor_hour(t) + Hour } \cup
                    (IF t % Hour = 0 THEN {t} ELSE {})

\* C8: first_measure_time returns, for every accepted interval, a time T at
\* or after now that lies a whole number of intervals from an hour boundary.
C8_AlignedNotBeforeNow ==
    (pc \in {"first_measure_time returned", "crashed"}
        /\ args.measure_full_hours) =>
        /\ exc = "none"
        /\ next_time >= now
        /\ \E h \in HourGrid : (h - next_time) % interval = 0

\* C9: the first measurement time T lies n intervals before the next full
\* hour, n the number of whole intervals between now and the next full hour;
\* so now <= T < now + interval and T is not after the next full hour.
C9_WholeIntervalsBeforeHour ==
    pc = "first_measure_time returned" =>
        \E nfh \in NextFullHours(now) :
            /\ nfh - next_time = ((nfh - now) \div interval) * interval
            /\ now <= next_time
            /\ next_time < now + interval
            /\ next_time <= nfh

\* C10: free-running, the first cycle begins at the start time and the target
\* of the k-th following cycle is start + k * interval, however long the
\* cycles took; a cycle that begins, begins at its target.
C10_NoDrift ==
    (~args.measure_full_hours /\ pc # "main") =>
        /\ next_time = start + k * interval
        /\ cycle >= 1 => began = start + (cycle - 1) * interval

\* the second target is computed after a cycle that slept the cooldown
C10_Witness ==
    /\ ~args.measure_full_hours
    /\ k = 2
    /\ pc = "wait"
    /\ interval > Cooldown
    /\ began = start + interval
    /\ now >= began + Cooldown
    /\ next_time = start + 2 * interval

\* C11: in full-hour-aligned mode with an interval of a whole number of
\* hours every target time is a full hour, and the target computed after a
\* cycle is the hour in which that cycle began plus the interval.
C11_TargetsOnFullHours ==
    (/\ args.measure_full_hours
     /\ pc \in {"first_wait", "wait", "measure", "cooldown", "recheck", "post",
                "done"}
     /\ interval > 0 /\ interval % Hour = 0) =>
        /\ next_time % Hour = 0
        /\ pc = "wait" => next_time = floor_hour(began) + interval

\* C12: the payload carries, under the version's wire name of
\* response_channel, the response channel ids joined by ',' in their order.
JoinedResponses(response_channels) ==
    CASE response_channels = << >> -> ""
      [] response_channels = << "4" >> -> "4"
      [] response_channels = << "2", "3" >> -> "2,3"
      [] response_channels = << "4", "1", "3" >> -> "4,1,3"
ResponseWire(version) ==
    IF version = "1.0.1" THEN "n2" ELSE "resp_chan_list"

C12_ResponseChannelsJoined ==
    (pc = "prepare_data returned" /\ exc = "none") =>
        /\ HasField(payload, ResponseWire(args.sip_version))
        /\ Field(payload, ResponseWire(args.sip_version))
               = JoinedResponses(args.channels[1].resp)

C12_Witness ==
    /\ pc = "prepare_data returned"
    /\ args.channels[1].stim = "1"
    /\ args.channels[1].resp = << "2", "3" >>
    /\ args.sip_version = "1.0.1"
    /\ Field(payload, "n2") = "2,3"

\* the logical names of the parameter set handed to prepare_data, with the
\* three names prepare_data sets itself
Injected == {"stimulus_channel", "response_channel", "filename"}
ParameterNames == DOMAIN data \cup Injected
MainData == data = main_data(args.paramfile, args.basename)

WellFormedInterval(str) ==
    \/ /\ Len(str) = 5
       /\ str[1] \in {"0", "1", "2"} /\ str[2] \in Digits /\ str[3] = ":"
       /\ str[4] \in {"0", "1", "2", "3", "4", "5"} /\ str[5] \in Digits
    \/ /\ Len(str) = 4
       /\ str[1] \in Digits /\ str[2] = ":"
       /\ str[3] \in {"0", "1", "2", "3", "4", "5"} /\ str[4] \in Digits

\* C14: with an unrecognized version or an interval string that is not a
\* well-formed HH:MM, the program ends at startup: no readiness check, no
\* submission and no cycle ever happens.
C14_ConfigErrorFatal ==
    (args.sip_version \notin SupportedVersions
        \/ ~WellFormedInterval(args.interval)) =>
        /\ pc \in {"main", "crashed"}
        /\ cycle = 0
        /\ checks = << >>
        /\ posts = << >>

OutcomeEvents == SelectSeq(log, LAMBDA e : e.ev \in {"submitted", "failed"})

\* C15: when measure() returns from a cycle that passed readiness, the log
\* has exactly one outcome per stimulus channel, in order: a success, with
\* the file name submitted, iff the submission was classified success, a
\* failure otherwise; no exception leaves measure().
C15_OneOutcomePerChannel ==
    (pc = "done" /\ ReadinessPassed) =>
        /\ Len(OutcomeEvents) = Len(args.channels)
        /\ Count("submitted") + Count("failed") = Len(args.channels)
        /\ \A i \in 1 .. Len(OutcomeEvents) :
              LET e == OutcomeEvents[i] IN
              /\ e.ch = args.channels[i].stim
              /\ e.ev = "submitted" <=> e.kind = "success"
              /\ e.ev = "submitted" =>
                    \E t \in began .. now :
                        e.file = file_name(t, e.ch, args.basename)
              /\ e.ev = "failed" => e.file = "-"
        /\ exc = "none"

C15_Witness ==
    /\ pc = "done"
    /\ DictKeys(args.channels) = << "1", "3" >>
    /\ Count("submitted") = 2
    /\ Count("failed") = 0
    /\ exc = "none"

C17_Sequential ==
    [][/\ Len(posts') > Len(posts) =>
             /\ pc = "post"
             /\ Len(posts') = Len(posts) + 1
             /\ Len(OutcomeEvents) = Len(posts)
             /\ posts' = SubSeq(DictKeys(args.channels), 1, Len(posts'))
       /\ pc' = "wait" =>
             /\ pc = "done"
             /\ ReadinessPassed => Len(OutcomeEvents) = Len(args.channels)
       /\ cycle' # cycle =>
             /\ pc = "measure"
             /\ cycle' = cycle + 1
             /\ posts = << >>
             /\ log = << >>]_vars

C17_Witness ==
    /\ pc = "post"
    /\ cycle = 2
    /\ Len(posts) = 1
    /\ Len(OutcomeEvents) = 1
    /\ idx = 2

\* the payload's values other than the file name and the channel fields
SameParameters(run_data) ==
    \A i \in 1 .. Len(run_data) :
        param_names[i][1] \notin Injected =>
            /\ run_data[i][1] = param_names[i][2]
            /\ run_data[i][2] =
                  update(DEFAULTS, args.paramfile)[param_names[i][1]]

\* C18: from the first cycle on nothing changes the parameter set, the field
\* mapping, the channel map (args) or the credentials, and every payload
\* carries the values of the parameter set for all but the file name and
\* the channel fields.
C18_ParametersUnchanged ==
    [][pc # "main" =>
          /\ data' = data
          /\ param_names' = param_names
          /\ args' = args
          /\ request_kwargs' = request_kwargs
          /\ SameParameters(payload')]_vars

C18_Witness ==
    /\ pc = "done"
    /\ cycle = 3
    /\ Count("failed") >= 1
    /\ "amplitude" \in DOMAIN args.paramfile
    /\ data = main_data(args.paramfile, args.basename)
    /\ payload # << >>

Ready(answer) == answer.up /\ answer.status < 400 /\ answer.submit

\* C19: check_device_ready polls the channels in order and stops at the
\* first that is not ready: every polled channel but the last is ready, False
\* is returned with the last polled channel unready, True only with every
\* channel polled once.
C19_ShortCircuit ==
    pc = "check_device_ready returned" =>
        LET keys == DictKeys(args.channels)
            n == Len(polled)
        IN  /\ n <= Len(keys)
            /\ polled = SubSeq(keys, 1, n)
            /\ \A i \in 1 .. n - 1 : Ready(dev[polled[i]])
            /\ checks[1] => (n = Len(keys) /\ Ready(dev[polled[n]]))
            /\ ~checks[1] => (n >= 1 /\ ~Ready(dev[polled[n]]))

C19_Witness ==
    /\ pc = "check_device_ready returned"
    /\ Len(args.channels) = 2
    /\ polled = << args.channels[1].stim >>
    /\ Ready(dev[args.channels[2].stim])
    /\ checks = << FALSE >>

====
